---- MODULE Spec2Model ----
(***************************************************************************)
(* A model of src/rsync.py, the "Smart Rsync Manager": a wrapper that      *)
(* launches rsync, streams and classifies its output, prints a summary    *)
(* and then runs a dry-run audit of source against destination.           *)
(*                                                                         *)
(* Strings are sequences of characters.  A run of characters that no      *)
(* operation of the program ever splits or matches in part (a directory   *)
(* name, the word "rsync:", a flag) is kept as one element of the         *)
(* sequence; the characters the program does look at one by one ("/",     *)
(* " ", "\n", "%") are elements of their own.  A command line is a         *)
(* sequence of such strings.                                              *)
(***************************************************************************)
EXTENDS Integers, Sequences, FiniteSets, TLC

(***************************************************************************)
(* Bounds of the model.                                                    *)
(***************************************************************************)
MaxLines == 2        \* lines the transfer subprocess writes in one run
MaxAuditItems == 2   \* itemized entries of an enumerated audit output
MaxList == 20        \* entries per kind of a generated (long) audit output
MaxPathLen == 3      \* characters of an enumerated source/destination path

(***************************************************************************)
(* Generic string operations (Python's str methods and os.path).          *)
(***************************************************************************)
Str(a) == <<a>>

WS == {" ", "\n", "\t"}

LeadCount(s, C) ==
  CHOOSE k \in 0..Len(s) :
    /\ \A i \in 1..k : s[i] \in C
    /\ (k = Len(s) \/ s[k + 1] \notin C)

TrailCount(s, C) ==
  CHOOSE k \in 0..Len(s) :
    /\ \A i \in (Len(s) - k + 1)..Len(s) : s[i] \in C
    /\ (k = Len(s) \/ s[Len(s) - k] \notin C)

rstrip(s, C) == SubSeq(s, 1, Len(s) - TrailCount(s, C))

lstrip(s, C) == SubSeq(s, LeadCount(s, C) + 1, Len(s))

strip(s) == rstrip(lstrip(s, WS), WS)

startswith(s, p) == Len(p) <= Len(s) /\ SubSeq(s, 1, Len(p)) = p

endswith(s, p) == Len(p) <= Len(s) /\ SubSeq(s, Len(s) - Len(p) + 1, Len(s)) = p

contains(s, p) == \E i \in 1..(Len(s) - Len(p) + 1) : SubSeq(s, i, i + Len(p) - 1) = p

FirstIdx(s, ch) ==
  IF \E i \in 1..Len(s) : s[i] = ch
  THEN CHOOSE i \in 1..Len(s) : s[i] = ch /\ \A j \in 1..(i - 1) : s[j] # ch
  ELSE 0

LastIdx(s, ch) ==
  IF \E i \in 1..Len(s) : s[i] = ch
  THEN CHOOSE i \in 1..Len(s) : s[i] = ch /\ \A j \in (i + 1)..Len(s) : s[j] # ch
  ELSE 0

\* s.split(ch, 1)
split1(s, ch) ==
  LET i == FirstIdx(s, ch)
  IN IF i = 0 THEN <<s>> ELSE <<SubSeq(s, 1, i - 1), SubSeq(s, i + 1, Len(s))>>

\* s.split(ch)
RECURSIVE split(_, _)
split(s, ch) ==
  LET i == FirstIdx(s, ch)
  IN IF i = 0 THEN <<s>>
     ELSE <<SubSeq(s, 1, i - 1)>> \o split(SubSeq(s, i + 1, Len(s)), ch)

\* s.replace(old, new): every non-overlapping occurrence, left to right
RECURSIVE replace(_, _, _)
replace(s, old, new) ==
  IF Len(old) = 0 \/ Len(s) < Len(old) THEN s
  ELSE IF SubSeq(s, 1, Len(old)) = old
       THEN new \o replace(SubSeq(s, Len(old) + 1, Len(s)), old, new)
       ELSE <<s[1]>> \o replace(Tail(s), old, new)

\* os.path.basename
basename(p) == SubSeq(p, LastIdx(p, "/") + 1, Len(p))

\* os.path.join(a, b)
path_join(a, b) ==
  IF startswith(b, Str("/")) THEN b
  ELSE IF a = <<>> \/ endswith(a, Str("/")) THEN a \o b
  ELSE a \o Str("/") \o b

\* "x in list"
InList(x, l) == \E i \in 1..Len(l) : l[i] = x

\* list[:n]
Take(l, n) == SubSeq(l, 1, IF Len(l) < n THEN Len(l) ELSE n)

RECURSIVE Flatten(_)
Flatten(ll) == IF ll = <<>> THEN <<>> ELSE Head(ll) \o Flatten(Tail(ll))


(***************************************************************************)
(* State.  The first group is the environment one run starts in; the      *)
(* program only reads it.  The second group is the program's own state,   *)
(* the third the transfer subprocess and its pipe, the last what the run  *)
(* has done that an observer sees.                                        *)
(***************************************************************************)
VARIABLES
  sys_argv,        \* sys.argv, the program name first
  installed,       \* the candidate rsync paths that exist and are executable
  version_run,     \* what "rsync --version" does: [raises, stdout]
  files,           \* the paths for which os.path.isfile holds
  childScript,     \* the lines the transfer subprocess is going to write
  childRc,         \* the exit code the transfer subprocess is going to return
  auditItems,      \* what the audit subprocess is going to report, entry by entry
  pc,              \* where the program is
  RSYNC_EXEC,      \* module global, line 46
  IS_LEGACY_RSYNC, \* module global, lines 47-55
  errors,          \* run_sync's local list
  current_file,    \* run_sync's local
  acts,            \* what the last loop iteration did with its line
  exit_code,       \* the process exit code, -1 while running
  child,           \* "none", "running", "closed" (stdout closed), "exited"
  written,         \* lines of childScript written to the pipe so far
  readPos,         \* lines the program has read from the pipe so far
  audit_result,    \* run_audit's lists: [missing, extras]
  launched,        \* the subprocesses launched: [kind, cmd]
  term             \* what was printed to the terminal, in order

vars == <<sys_argv, installed, version_run, files, childScript, childRc, auditItems,
          pc, RSYNC_EXEC, IS_LEGACY_RSYNC, errors, current_file, acts, exit_code,
          child, written, readPos, audit_result, launched, term>>

envVars == <<sys_argv, installed, version_run, files, childScript, childRc, auditItems>>

Ev(t, n, s, l) == [t |-> t, n |-> n, s |-> s, l |-> l]

(***************************************************************************)
(* Configuration: find_rsync and the legacy detection.                    *)
(***************************************************************************)
HOMEBREW_RSYNC == <<"/opt/homebrew/bin", "/", "rsync">>
USRLOCAL_RSYNC == <<"/usr/local/bin", "/", "rsync">>
USRBIN_RSYNC == <<"/usr/bin", "/", "rsync">>
PATH_RSYNC == <<"rsync">>

find_rsync ==
  LET paths == <<HOMEBREW_RSYNC, USRLOCAL_RSYNC, USRBIN_RSYNC>>
      hits == {i \in 1..Len(paths) : paths[i] \in installed}
  IN IF hits = {} THEN PATH_RSYNC
     ELSE paths[CHOOSE i \in hits : \A j \in hits : i <= j]

detect_legacy(exec) ==
  IF exec = PATH_RSYNC \/ startswith(exec, Str("/usr/bin"))
  THEN IF version_run.raises THEN TRUE
       ELSE contains(version_run.stdout, Str("version 2."))
  ELSE FALSE

(***************************************************************************)
(* Exclude arguments.  The notice printed for each ignore file found       *)
(* (line 121) is not part of the terminal events kept.                     *)
(***************************************************************************)
SCRIPT_DIR == <<"/", "tools">>
RSYNCIGNORE == Str(".rsyncignore")
GITIGNORE == Str(".gitignore")

DEFAULT_EXCLUDES ==
  << Str("--exclude=Photos Library.photoslibrary"),
     Str("--exclude=.DS_Store"),
     Str("--exclude=.git"),
     Str("--exclude=node_modules") >>

candidates(source_path) ==
  LET source_dir == rstrip(source_path, {"/"})
      script_dir == SCRIPT_DIR
  IN << path_join(script_dir, RSYNCIGNORE),
        path_join(script_dir, GITIGNORE),
        path_join(source_dir, RSYNCIGNORE),
        path_join(source_dir, GITIGNORE) >>

\* only the first ignore file found is used
get_exclude_args_first_only(source_path) ==
  LET cand == candidates(source_path)
      hits == {i \in 1..Len(cand) : cand[i] \in files}
  IN IF hits # {}
     THEN <<Str("--exclude-from"), cand[CHOOSE i \in hits : \A j \in hits : i <= j]>>
     ELSE DEFAULT_EXCLUDES

get_exclude_args(source_path) ==
  LET cand == candidates(source_path)
      excludes == Flatten([i \in 1..Len(cand) |->
                    IF cand[i] \in files
                    THEN <<Str("--exclude-from"), cand[i]>>
                    ELSE <<>>])
      found_any == \E i \in 1..Len(cand) : cand[i] \in files
  IN IF found_any THEN excludes ELSE DEFAULT_EXCLUDES

(***************************************************************************)
(* The transfer command.                                                   *)
(***************************************************************************)
\* lines 138-149: the flags before the exclude arguments
transfer_flags(legacy) ==
  IF legacy
  THEN <<Str("-rltD"), Str("--partial"), Str("-v")>>
  ELSE <<Str("-a"), Str("--partial"), Str("--no-perms"), Str("--no-owner"),
         Str("--no-group"), Str("--info=progress2"), Str("-v")>>

\* "--delete" appended whatever the flag
build_rsync_cmd_always_delete(source, dest, dry_run, delete_flag) ==
  <<RSYNC_EXEC>> \o transfer_flags(IS_LEGACY_RSYNC) \o get_exclude_args(source)
  \o <<Str("--delete"), source, rstrip(dest, {"/"})>>

build_rsync_cmd(source, dest, dry_run, delete_flag) ==
  LET base == <<RSYNC_EXEC>> \o transfer_flags(IS_LEGACY_RSYNC)
      c1 == base \o get_exclude_args(source)
      c2 == IF delete_flag THEN Append(c1, Str("--delete")) ELSE c1
      c3 == c2 \o <<source, rstrip(dest, {"/"})>>
  IN IF dry_run THEN <<c3[1], Str("-n")>> \o Tail(c3) ELSE c3

(***************************************************************************)
(* The read loop's classification of one stripped, non-empty line          *)
(* (lines 217-228): an if / elif / elif chain.                             *)
(***************************************************************************)
IsProgressLine(line) == contains(line, Str("%")) /\ contains(line, Str("xfr#"))

IsErrorSignature(line) ==
  \/ startswith(line, Str("rsync:"))
  \/ startswith(line, Str("rsync error:"))
  \/ contains(line, Str("No space left"))

IsHeaderLine(line) == startswith(line, Str("sending incremental"))

DoProgress(line) == IsProgressLine(line)

\* the error test as an "if" of its own instead of an "elif"
DoError_if(line) == IsErrorSignature(line)

DoError(line) == ~IsProgressLine(line) /\ IsErrorSignature(line)

DoFilename(line) ==
  ~IsProgressLine(line) /\ ~IsErrorSignature(line) /\ ~IsHeaderLine(line)

\* the exit test without the poll: leaving at end of file
LoopDone_eof(line) == line = <<>>

\* the loop's exit test, line 210: "not line and process.poll() is not None"
LoopDone(line) == line = <<>> /\ child = "exited"

(***************************************************************************)
(* print_summary (lines 244-260).  The elapsed time is not modelled.      *)
(***************************************************************************)
\* the exit code looked at before the error list
print_summary_rc_first(return_code, errs) ==
  <<Ev("summary", 0, <<>>, <<>>)>> \o
  ( IF return_code = 0
    THEN <<Ev("success", 0, <<>>, <<>>)>>
    ELSE IF Len(errs) > 0
         THEN <<Ev("errors_found", Len(errs), <<>>, <<>>)>>
              \o [i \in 1..Len(errs) |-> Ev("error_item", 0, errs[i], <<>>)]
              \o <<Ev("finished_with_errors", 0, <<>>, <<>>)>>
         ELSE <<Ev("exit_code_notice", return_code, <<>>, <<>>)>> )

print_summary(return_code, errs) ==
  <<Ev("summary", 0, <<>>, <<>>)>> \o
  ( IF Len(errs) > 0
    THEN <<Ev("errors_found", Len(errs), <<>>, <<>>)>>
         \o [i \in 1..Len(errs) |-> Ev("error_item", 0, errs[i], <<>>)]
         \o <<Ev("finished_with_errors", 0, <<>>, <<>>)>>
    ELSE IF return_code = 0
         THEN <<Ev("success", 0, <<>>, <<>>)>>
         ELSE <<Ev("exit_code_notice", return_code, <<>>, <<>>)>> )

(***************************************************************************)
(* run_audit (lines 268-359).                                              *)
(***************************************************************************)
\* the destination root taken as it is, whatever the source ends in
audit_roots_no_subfolder(source, dest) ==
  [src |-> rstrip(source, {"/"}) \o Str("/"), dest |-> rstrip(dest, {"/"}) \o Str("/")]

audit_roots(source, dest) ==
  LET src_clean == rstrip(source, {"/"}) \o Str("/")
      dest_clean ==
        IF ~endswith(source, Str("/"))
        THEN LET foldername == basename(source)
             IN rstrip(path_join(dest, foldername), {"/"}) \o Str("/")
        ELSE rstrip(dest, {"/"}) \o Str("/")
  IN [src |-> src_clean, dest |-> dest_clean]

\* the modern variant without the "n" of "-avn"
audit_flags_no_dry_run(legacy) ==
  IF legacy
  THEN <<Str("-n"), Str("-i"), Str("-rltDv"), Str("--delete"),
         Str("--ignore-errors"), Str("--force")>>
  ELSE <<Str("-av"), Str("-i"), Str("--delete"), Str("--ignore-errors"), Str("--force")>>

\* lines 284-290: the audit's flags
audit_flags(legacy) ==
  IF legacy
  THEN <<Str("-n"), Str("-i"), Str("-rltDv"), Str("--delete"),
         Str("--ignore-errors"), Str("--force")>>
  ELSE <<Str("-avn"), Str("-i"), Str("--delete"), Str("--ignore-errors"), Str("--force")>>

audit_cmd(source, dest) ==
  LET roots == audit_roots(source, dest)
      base == <<RSYNC_EXEC>> \o audit_flags(IS_LEGACY_RSYNC)
  IN base \o get_exclude_args(source) \o <<roots.src, roots.dest>>

DELETING == Str("*deleting")
DELETING_PREFIX == <<"*deleting", " ", " ", " ">>

\* the created-file test without its ">f" half
AuditLineKind_any_created(line) ==
  IF line = <<>> THEN "skip"
  ELSE LET parts == split1(line, " ")
       IN IF Len(parts) < 2 THEN "skip"
          ELSE IF startswith(line, DELETING) THEN "extra"
          ELSE IF contains(parts[1], Str("+++++++++")) THEN "missing"
          ELSE "ignored"

\* what the parse loop does with one line of the output (lines 316-330)
AuditLineKind(line) ==
  IF line = <<>> THEN "skip"
  ELSE LET parts == split1(line, " ")
       IN IF Len(parts) < 2 THEN "skip"
          ELSE IF startswith(line, DELETING) THEN "extra"
          ELSE IF startswith(parts[1], Str(">f")) /\ contains(parts[1], Str("+++++++++"))
               THEN "missing"
          ELSE "ignored"

parse_audit(out) ==
  LET lines == split(out, "\n")
      IsExtra(l) == AuditLineKind(l) = "extra"
      IsMissing(l) == AuditLineKind(l) = "missing"
      ex == SelectSeq(lines, IsExtra)
      mi == SelectSeq(lines, IsMissing)
  IN [ missing |-> [i \in 1..Len(mi) |-> split1(mi[i], " ")[2]],
       extras |-> [i \in 1..Len(ex) |-> replace(ex[i], DELETING_PREFIX, <<>>)] ]

TruncLimit == 15

\* the suffix printed from TruncLimit entries on, not from more than TruncLimit
report_list_off_by_one(head, list) ==
  IF Len(list) > 0
  THEN <<Ev(head, Len(list), <<>>, <<>>)>>
       \o [i \in 1..Len(Take(list, TruncLimit)) |-> Ev("item", 0, list[i], <<>>)]
       \o ( IF Len(list) >= TruncLimit
            THEN <<Ev("more", Len(list) - TruncLimit, <<>>, <<>>)>>
            ELSE <<>> )
  ELSE <<>>

report_list(head, list) ==
  IF Len(list) > 0
  THEN <<Ev(head, Len(list), <<>>, <<>>)>>
       \o [i \in 1..Len(Take(list, TruncLimit)) |-> Ev("item", 0, list[i], <<>>)]
       \o ( IF Len(list) > TruncLimit
            THEN <<Ev("more", Len(list) - TruncLimit, <<>>, <<>>)>>
            ELSE <<>> )
  ELSE <<>>

audit_report(missing, extras) ==
  IF Len(missing) = 0 /\ Len(extras) = 0
  THEN <<Ev("perfect_match", 0, <<>>, <<>>)>>
  ELSE <<Ev("audit_report", 0, <<>>, <<>>)>>
       \o report_list("missing_head", missing)
       \o report_list("extra_head", extras)
       \o <<Ev("tip", 0, <<>>, <<>>)>>

(***************************************************************************)
(* The audit subprocess: rsync -n -i prints one line per entry, the        *)
(* itemize code padded to eleven characters, a space, and the name         *)
(* (lines 309-311); other lines (headers, totals) are printed as they are. *)
(* An entry is [code, name]; an empty code stands for such another line.   *)
(***************************************************************************)
CREATED == <<">f", "+++++++++">>

itemize_line(e) ==
  IF e.code = <<>> THEN e.name
  ELSE IF e.code = DELETING THEN e.code \o <<" ", " ">> \o Str(" ") \o e.name
  ELSE e.code \o Str(" ") \o e.name

audit_output(entries) ==
  Flatten([i \in 1..Len(entries) |-> itemize_line(entries[i]) \o Str("\n")])

(***************************************************************************)
(* Steps of one run.                                                       *)
(***************************************************************************)
\* Line 58 prints with YELLOW, which is bound only on line 63.
YELLOW_bound_at_warning == FALSE

\* Lines 46-58: module-level configuration.
ModuleInit ==
  /\ pc = "import"
  /\ RSYNC_EXEC' = find_rsync
  /\ IS_LEGACY_RSYNC' = detect_legacy(find_rsync)
  /\ IF detect_legacy(find_rsync)
     THEN IF YELLOW_bound_at_warning
          THEN /\ term' = Append(term, Ev("legacy_warning", 0, <<>>, <<>>))
               /\ pc' = "main"
               /\ exit_code' = exit_code
          ELSE \* NameError, uncaught: traceback, exit status 1
               /\ term' = Append(term, Ev("traceback", 0, Str("NameError"), <<>>))
               /\ pc' = "exited"
               /\ exit_code' = 1
     ELSE /\ term' = term
          /\ pc' = "main"
          /\ exit_code' = exit_code
  /\ UNCHANGED <<envVars, errors, current_file, acts, child, written, readPos,
                 audit_result, launched>>

\* Lines 362-376 and run_sync up to its loop (lines 185-205).
Main ==
  /\ pc = "main"
  /\ IF Len(sys_argv) < 3
     THEN /\ term' = Append(term, Ev("usage", 0, <<>>, <<>>))
          /\ pc' = "exited"
          /\ exit_code' = 1
          /\ UNCHANGED <<errors, current_file, child, launched>>
     ELSE LET source_arg == sys_argv[2]
              dest_arg == sys_argv[3]
              enable_delete == InList(Str("--delete"), sys_argv)
              cmd == build_rsync_cmd(source_arg, dest_arg, FALSE, enable_delete)
          IN /\ launched' = Append(launched, [kind |-> "transfer", cmd |-> cmd])
             /\ child' = "running"
             /\ errors' = <<>>
             /\ current_file' = Str("Initializing...")
             /\ term' = term \o <<Ev("banner", IF enable_delete THEN 1 ELSE 0,
                                     source_arg, dest_arg),
                                  Ev("starting", 0, <<>>, <<>>)>>
             /\ pc' = "reading"
             /\ exit_code' = exit_code
  /\ UNCHANGED <<envVars, RSYNC_EXEC, IS_LEGACY_RSYNC, acts, written, readPos,
                 audit_result>>

\* The transfer subprocess writes its next line to the pipe.  (The
\* subprocess is followed until the program itself has exited.)
ChildWrite ==
  /\ pc # "exited"
  /\ child = "running"
  /\ written < Len(childScript)
  /\ written' = written + 1
  /\ UNCHANGED <<envVars, pc, RSYNC_EXEC, IS_LEGACY_RSYNC, errors, current_file, acts,
                 exit_code, child, readPos, audit_result, launched, term>>

\* The transfer subprocess has written everything and closes its output.
ChildClose ==
  /\ pc # "exited"
  /\ child = "running"
  /\ written = Len(childScript)
  /\ child' = "closed"
  /\ UNCHANGED <<envVars, pc, RSYNC_EXEC, IS_LEGACY_RSYNC, errors, current_file, acts,
                 exit_code, written, readPos, audit_result, launched, term>>

\* The transfer subprocess exits with childRc.
ChildExit ==
  /\ pc # "exited"
  /\ child = "closed"
  /\ child' = "exited"
  /\ UNCHANGED <<envVars, pc, RSYNC_EXEC, IS_LEGACY_RSYNC, errors, current_file, acts,
                 exit_code, written, readPos, audit_result, launched, term>>

\* One iteration of the read loop (lines 208-228).  readline blocks until
\* a line is in the pipe or the pipe is at end of file.  The status event
\* carries the filename whole: the cut of names longer than 75 characters
\* (line 172) touches only what is drawn.
ReadLine ==
  /\ pc = "reading"
  /\ (readPos < written \/ child \in {"closed", "exited"})
  /\ LET raw == IF readPos < written
                THEN childScript[readPos + 1] \o Str("\n")
                ELSE <<>>
         line == strip(raw)
     IN IF LoopDone(raw)
        THEN /\ pc' = "finish"
             /\ UNCHANGED <<errors, current_file, acts, readPos, term>>
        ELSE /\ pc' = pc
             /\ readPos' = IF readPos < written THEN readPos + 1 ELSE readPos
             /\ IF line = <<>>
                THEN /\ acts' = [line |-> <<>>, did |-> {}]
                     /\ UNCHANGED <<errors, current_file, term>>
                ELSE /\ acts' = [line |-> line,
                                 did |-> (IF DoProgress(line) THEN {"progress"} ELSE {})
                                    \cup (IF DoError(line) THEN {"error"} ELSE {})
                                    \cup (IF DoFilename(line) THEN {"filename"} ELSE {})]
                     /\ errors' = IF DoError(line) THEN Append(errors, line) ELSE errors
                     /\ current_file' = IF DoFilename(line) THEN line ELSE current_file
                     /\ term' = term
                          \o (IF DoProgress(line)
                              THEN <<Ev("status", 0, line, current_file)>> ELSE <<>>)
                          \o (IF DoError(line)
                              THEN <<Ev("error_alert", 0, line, <<>>)>> ELSE <<>>)
  /\ UNCHANGED <<envVars, RSYNC_EXEC, IS_LEGACY_RSYNC, exit_code, child, written,
                 audit_result, launched>>

\* KeyboardInterrupt inside the loop (lines 230-232): notice, return.
Interrupt ==
  /\ pc = "reading"
  /\ term' = Append(term, Ev("cancelled", 0, <<>>, <<>>))
  /\ pc' = "exited"
  /\ exit_code' = 0
  /\ UNCHANGED <<envVars, RSYNC_EXEC, IS_LEGACY_RSYNC, errors, current_file, acts,
                 child, written, readPos, audit_result, launched>>

\* Lines 234-242 and run_audit up to its Popen (lines 268-301).
Finish ==
  /\ pc = "finish"
  /\ LET return_code == IF child = "exited" THEN childRc ELSE -1  \* poll(); -1 is None
         source == sys_argv[2]
         dest == sys_argv[3]
     IN /\ term' = term \o print_summary(return_code, errors)
                        \o <<Ev("audit_start", 0, <<>>, <<>>)>>
        /\ launched' = Append(launched, [kind |-> "audit", cmd |-> audit_cmd(source, dest)])
  /\ pc' = "auditing"
  /\ UNCHANGED <<envVars, RSYNC_EXEC, IS_LEGACY_RSYNC, errors, current_file, acts,
                 exit_code, child, written, readPos, audit_result>>

\* communicate() returns; parse and report (lines 302-359); the program ends.
AuditDone ==
  /\ pc = "auditing"
  /\ LET res == parse_audit(audit_output(auditItems))
     IN /\ audit_result' = res
        /\ term' = term \o audit_report(res.missing, res.extras)
  /\ pc' = "exited"
  /\ exit_code' = 0
  /\ UNCHANGED <<envVars, RSYNC_EXEC, IS_LEGACY_RSYNC, errors, current_file, acts,
                 child, written, readPos, launched>>

Next ==
  \/ ModuleInit
  \/ Main
  \/ ChildWrite
  \/ ChildClose
  \/ ChildExit
  \/ ReadLine
  \/ Interrupt
  \/ Finish
  \/ AuditDone

(***************************************************************************)
(* The runs checked: the inputs and environments a run can start in.       *)
(***************************************************************************)
PROG == Str("./rsync.py")
DELETE == Str("--delete")

SRC == <<"/", "home", "/", "pics">>
DST == <<"/", "mnt", "/", "bak">>

VERSION3 == <<"rsync", " ", "version 3.", "2.7">>
VERSION2 == <<"rsync", " ", "version 2.", "6.9">>

\* [installed, version_run]: Homebrew rsync beside the macOS default 2.6.9;
\* a modern /usr/bin/rsync; the macOS default rsync 2.6.9 alone; no rsync
\* anywhere (running it raises).
ModernEnv == [installed |-> {HOMEBREW_RSYNC, USRBIN_RSYNC},
              version_run |-> [raises |-> FALSE, stdout |-> VERSION2]]

Envs ==
  { ModernEnv,
    [installed |-> {USRBIN_RSYNC}, version_run |-> [raises |-> FALSE, stdout |-> VERSION3]],
    [installed |-> {USRBIN_RSYNC}, version_run |-> [raises |-> FALSE, stdout |-> VERSION2]],
    [installed |-> {}, version_run |-> [raises |-> TRUE, stdout |-> <<>>]] }

Argvs ==
  { <<PROG>>,
    <<PROG, SRC>>,
    <<PROG, SRC, DST>>,
    <<PROG, SRC \o Str("/"), DST \o Str("/"), DELETE>>,
    <<PROG, SRC, DELETE>>,
    <<PROG, DELETE, SRC, DST>> }

SourceOf(argv) == IF Len(argv) >= 2 THEN argv[2] ELSE <<>>

CandidateSet(argv) ==
  LET c == candidates(SourceOf(argv)) IN {c[i] : i \in 1..Len(c)}

\* Lines the transfer subprocess may write.
TransferLines ==
  { <<"1,024", " ", "100", "%", " ", "1.00MB/s", " ", "(", "xfr#", "1", ")">>,
    <<"50", "%", " ", "done.txt">>,
    <<"rsync:", " ", "link_stat failed">>,
    <<" ", "rsync error:", " ", "some files could not be transferred">>,
    <<"write failed:", " ", "No space left", " ", "on device">>,
    <<"rsync:", " ", "100", "%", " ", "xfr#", "2">>,
    <<"sending incremental", " ", "file list">>,
    <<"a.txt">>,
    <<" ", "\t">> }

RECURSIVE SeqsUpTo(_, _)
SeqsUpTo(S, n) ==
  IF n = 0 THEN {<<>>}
  ELSE LET shorter == SeqsUpTo(S, n - 1)
       IN shorter \cup {Append(s, x) : s \in {q \in shorter : Len(q) = n - 1}, x \in S}

ExitCodes == {0, 23}

\* Entries the audit subprocess may report.
Entry(code, name) == [code |-> code, name |-> name]

AuditEntries ==
  { Entry(DELETING, Str("old.txt")),
    Entry(CREATED, Str("new.txt")),
    Entry(CREATED, <<"my", " ", "new file.txt">>),
    Entry(DELETING, <<"old dir", "/", " ", "x.txt">>),
    Entry(<<">f", ".st......">>, Str("changed.txt")),
    Entry(<<"cd", "+++++++++">>, <<"newdir", "/">>),
    Entry(<<".d", "..t......">>, <<".", "/">>),
    Entry(<<>>, <<"sending incremental", " ", "file list">>),
    Entry(<<>>, <<>>),
    Entry(<<>>, Str("./")) }

\* ignoreFiles: "every" set of the candidate ignore files, "all" of them or
\* none, or "none".
InitWith(argvs, envs, ignoreFiles, scripts, rcs, audits) ==
  /\ sys_argv \in argvs
  /\ \E e \in envs : installed = e.installed /\ version_run = e.version_run
  /\ files \in (CASE ignoreFiles = "every" -> SUBSET CandidateSet(sys_argv)
                  [] ignoreFiles = "all" -> {{}, CandidateSet(sys_argv)}
                  [] OTHER -> {{}})
  /\ childScript \in scripts
  /\ childRc \in rcs
  /\ auditItems \in audits
  /\ pc = "import"
  /\ RSYNC_EXEC = <<>>
  /\ IS_LEGACY_RSYNC = FALSE
  /\ errors = <<>>
  /\ current_file = <<>>
  /\ acts = [line |-> <<>>, did |-> {}]
  /\ exit_code = -1
  /\ child = "none"
  /\ written = 0
  /\ readPos = 0
  /\ audit_result = [missing |-> <<>>, extras |-> <<>>]
  /\ launched = <<>>
  /\ term = <<>>

\* Whole runs: every command line in every environment with an output of at
\* most one line, and two of the command lines with every output of at most
\* MaxLines lines.
OneAudit == { <<Entry(DELETING, Str("old.txt")), Entry(CREATED, Str("new.txt"))>> }

Init ==
  \/ InitWith(Argvs, Envs, "all", SeqsUpTo(TransferLines, 1), ExitCodes, OneAudit)
  \/ InitWith({ <<PROG, SRC, DST>>, <<PROG, SRC \o Str("/"), DST \o Str("/"), DELETE>> },
              {ModernEnv}, "none", SeqsUpTo(TransferLines, MaxLines), ExitCodes, OneAudit)

Spec == Init /\ [][Next]_vars

\* Exclude resolution: every set of existing ignore files, for several sources
\* (one of them the script's own directory, one the file-system root).
InitExclude ==
  InitWith({ <<PROG, SRC, DST>>, <<PROG, SRC \o <<"/", "/">>, DST>>,
             <<PROG, SCRIPT_DIR, DST, DELETE>>, <<PROG, Str("proj"), DST>>,
             <<PROG, Str("/"), DST>> },
           {ModernEnv}, "every", {<<Str("a.txt")>>}, {0}, {<<>>})

SpecExclude == InitExclude /\ [][Next]_vars

\* Comparison roots: every source and destination of at most MaxPathLen characters.
PathChars == {"/", "a", "b"}

InitRoots ==
  InitWith({ <<PROG, s, d>> : s \in SeqsUpTo(PathChars, MaxPathLen),
                              d \in SeqsUpTo(PathChars, MaxPathLen) },
           {ModernEnv}, "none", {<<Str("a.txt")>>}, {0}, {<<>>})

SpecRoots == InitRoots /\ [][Next]_vars

\* Audit parsing: every audit output of at most MaxAuditItems lines.
InitAudit ==
  InitWith({ <<PROG, SRC, DST>> }, {ModernEnv}, "none", {<<Str("a.txt")>>}, {0, 23},
           SeqsUpTo(AuditEntries, MaxAuditItems))

SpecAudit == InitAudit /\ [][Next]_vars

\* Audit report: n created files and m deletions, for all n, m up to MaxList.
FileName(prefix, i) == <<prefix, ToString(i), ".txt">>

LongAudit(n, m) ==
  [i \in 1..n |-> Entry(CREATED, FileName("new", i))]
  \o [i \in 1..m |-> Entry(DELETING, FileName("old", i))]

InitReport ==
  InitWith({ <<PROG, SRC, DST>> }, {ModernEnv}, "none", {<<Str("a.txt")>>}, {0},
           { LongAudit(n, m) : n \in 0..MaxList, m \in 0..MaxList })

SpecReport == InitReport /\ [][Next]_vars

(***************************************************************************)
(* What the claims speak of.                                               *)
(***************************************************************************)
Printed(kind) == \E i \in 1..Len(term) : term[i].t = kind

IdxOf(kind) == CHOOSE i \in 1..Len(term) : term[i].t = kind

Launched(kind) == \E i \in 1..Len(launched) : launched[i].kind = kind

CmdOf(kind) == launched[CHOOSE i \in 1..Len(launched) : launched[i].kind = kind].cmd

Cancelled == Printed("cancelled")

Crashed == Printed("traceback")

(***************************************************************************)
(* C1.  Started with at least two arguments and not cancelled, the         *)
(* program exits with the exit code of the transfer subprocess; with       *)
(* fewer it prints the usage message and exits with 1.  (Runs that die in  *)
(* the legacy warning are left aside here: they are C7's.)                 *)
(***************************************************************************)
C1_ExitCodeFollowsTool ==
  (pc = "exited" /\ ~Crashed) =>
    IF Len(sys_argv) < 3
    THEN Printed("usage") /\ exit_code = 1
    ELSE ~Cancelled => exit_code = childRc

(***************************************************************************)
(* C2.  As claimed: every line that is non-empty after stripping triggers  *)
(* exactly one of progress redraw, error, filename update.                 *)
(***************************************************************************)
C2_ExactlyOneAction ==
  acts.line # <<>> => Cardinality(acts.did) = 1

(***************************************************************************)
(* C2, amended.  Every line that is non-empty after stripping triggers at  *)
(* most one of the three actions: the progress redraw exactly when it      *)
(* contains both "%" and "xfr#"; and it triggers none exactly when it      *)
(* starts with "sending incremental" and is neither a progress line nor a  *)
(* line with an error signature.  An error line is the last of the error   *)
(* list; a filename line is the current filename.                          *)
(***************************************************************************)
C2_AtMostOneAction ==
  acts.line # <<>> =>
    LET l == acts.line
        progress == contains(l, Str("%")) /\ contains(l, Str("xfr#"))
        signature == \/ startswith(l, Str("rsync:"))
                     \/ startswith(l, Str("rsync error:"))
                     \/ contains(l, Str("No space left"))
        header == startswith(l, Str("sending incremental"))
    IN /\ Cardinality(acts.did) <= 1
       /\ ("progress" \in acts.did) <=> progress
       /\ (acts.did = {}) <=> (header /\ ~progress /\ ~signature)
       /\ "error" \in acts.did => (Len(errors) > 0 /\ errors[Len(errors)] = l)
       /\ "filename" \in acts.did => current_file = l
       /\ strip(l) = l

\* a header line was read, and nothing was done with it
C2_Witness ==
  /\ acts.line = <<"sending incremental", " ", "file list">>
  /\ acts.did = {}
  /\ readPos = 2

(***************************************************************************)
(* C7.  With a legacy rsync (2.x, or a failed version check) the run       *)
(* falls back: it goes on to launch the transfer with "-rltD --partial     *)
(* -v", without "--info=progress2" and the "--no-..." flags.               *)
(***************************************************************************)
C7_LegacyFallsBack ==
  (pc = "exited" /\ Len(sys_argv) >= 3 /\ detect_legacy(find_rsync)) =>
    /\ Launched("transfer")
    /\ LET cmd == CmdOf("transfer")
       IN /\ SubSeq(cmd, 2, 4) = <<Str("-rltD"), Str("--partial"), Str("-v")>>
          /\ ~InList(Str("--info=progress2"), cmd)
          /\ ~InList(Str("--no-perms"), cmd)
          /\ ~InList(Str("--no-owner"), cmd)
          /\ ~InList(Str("--no-group"), cmd)

(***************************************************************************)
(* C9.  On normal completion the summary reports exactly one of three      *)
(* outcomes: with at least one collected error line, the error count and   *)
(* the whole error list in order of arrival, whatever the exit code;       *)
(* otherwise success when the exit code is 0; otherwise the notice of the  *)
(* non-zero exit code.                                                     *)
(***************************************************************************)
Count(kind) == Cardinality({i \in 1..Len(term) : term[i].t = kind})

\* the error lines among the subprocess's output, in the order written
ArrivedErrors ==
  LET stripped == [i \in 1..Len(childScript) |-> strip(childScript[i])]
      IsErr(l) == /\ ~(contains(l, Str("%")) /\ contains(l, Str("xfr#")))
                  /\ \/ startswith(l, Str("rsync:"))
                     \/ startswith(l, Str("rsync error:"))
                     \/ contains(l, Str("No space left"))
  IN SelectSeq(stripped, IsErr)

C9_SummaryOutcome ==
  Printed("summary") =>
    LET k == IdxOf("summary")
        n == Len(ArrivedErrors)
    IN /\ Count("summary") = 1
       /\ Count("errors_found") + Count("success") + Count("exit_code_notice") = 1
       /\ errors = ArrivedErrors
       /\ n > 0 =>
            /\ term[k + 1] = Ev("errors_found", n, <<>>, <<>>)
            /\ \A i \in 1..n : term[k + 1 + i] = Ev("error_item", 0, ArrivedErrors[i], <<>>)
            /\ Count("error_item") = n
       /\ (n = 0 /\ childRc = 0) => term[k + 1] = Ev("success", 0, <<>>, <<>>)
       /\ (n = 0 /\ childRc # 0) => term[k + 1] = Ev("exit_code_notice", childRc, <<>>, <<>>)
       /\ Printed("success") => (n = 0 /\ childRc = 0)

\* two error lines arrived, the subprocess exited with 0, the summary lists both
C9_Witness ==
  /\ Printed("summary")
  /\ childRc = 0
  /\ Len(errors) = 2
  /\ errors[1] # errors[2]
  /\ Printed("finished_with_errors")

(***************************************************************************)
(* C5.  The audit subprocess is launched only after the transfer           *)
(* subprocess has exited, all its output has been read and the summary     *)
(* has been printed; when the read loop is interrupted, neither summary    *)
(* nor audit ever happen.                                                  *)
(***************************************************************************)
C5_AuditAfterTransfer ==
  /\ (Launched("audit") \/ Printed("audit_start") \/ pc = "auditing") =>
       /\ child = "exited"
       /\ written = Len(childScript)
       /\ readPos = Len(childScript)
       /\ Printed("summary")
       /\ Printed("audit_start")
       /\ IdxOf("summary") < IdxOf("audit_start")
       /\ launched[Len(launched)].kind = "audit"
       /\ Len(launched) = 2
  /\ Cancelled =>
       /\ ~Printed("summary")
       /\ ~Launched("audit")
       /\ ~Printed("audit_start")
       /\ audit_result = [missing |-> <<>>, extras |-> <<>>]
       /\ pc = "exited"

\* the audit runs after a transfer that wrote two lines
C5_Witness ==
  /\ pc = "auditing"
  /\ Launched("audit")
  /\ Len(childScript) = 2

(***************************************************************************)
(* C4.  The transfer command carries "--delete" exactly when the delete    *)
(* flag was given; every audit command, legacy or modern, carries the      *)
(* dry-run flag; so no command with "--delete" and without dry-run is      *)
(* launched in a run where "--delete" was not given.                       *)
(***************************************************************************)
DryRun(cmd) == InList(Str("-n"), cmd) \/ InList(Str("-avn"), cmd)

ExcludeFromArgs(cmd) ==
  LET at == {i \in 1..(Len(cmd) - 1) : cmd[i] = Str("--exclude-from")}
      IsArg(i) == (i - 1) \in at
      idx == SelectSeq([i \in 1..Len(cmd) |-> i], IsArg)
  IN [k \in 1..Len(idx) |-> cmd[idx[k]]]

FourCandidates ==
  LET local == rstrip(sys_argv[2], {"/"})
  IN << SCRIPT_DIR \o <<"/", ".rsyncignore">>,
        SCRIPT_DIR \o <<"/", ".gitignore">>,
        (IF local = <<>> THEN <<>> ELSE local \o Str("/")) \o Str(".rsyncignore"),
        (IF local = <<>> THEN <<>> ELSE local \o Str("/")) \o Str(".gitignore") >>

C6_ExcludeResolution ==
  \A i \in 1..Len(launched) :
    LET cmd == launched[i].cmd
        IsFile(f) == f \in files
        existing == SelectSeq(FourCandidates, IsFile)
        defaults == {Str("--exclude=Photos Library.photoslibrary"), Str("--exclude=.DS_Store"),
                     Str("--exclude=.git"), Str("--exclude=node_modules")}
    IN /\ ExcludeFromArgs(cmd) = existing
       /\ (\A d \in defaults : InList(d, cmd)) <=> (existing = <<>>)
       /\ ~((\E d \in defaults : InList(d, cmd)) /\ InList(Str("--exclude-from"), cmd))

\* a global and a local ignore file exist, and the transfer was launched
C6_Witness ==
  /\ Launched("transfer")
  /\ sys_argv[2] = SRC
  /\ files = {SCRIPT_DIR \o <<"/", ".gitignore">>, SRC \o <<"/", ".rsyncignore">>}
  /\ Len(ExcludeFromArgs(CmdOf("transfer"))) = 2

(***************************************************************************)
(* C8.  The audit's comparison roots.  The source root always ends in      *)
(* exactly one separator.  For a source without a trailing separator the   *)
(* destination root is the destination joined with the source's final      *)
(* path component, ending in exactly one separator; for a source with      *)
(* trailing separators it is the destination with exactly one trailing     *)
(* separator, however many the destination had.                            *)
(***************************************************************************)
OneTrailingSep(p) ==
  /\ Len(p) >= 1
  /\ p[Len(p)] = "/"
  /\ (Len(p) = 1 \/ p[Len(p) - 1] # "/")

NoTrailingSeps(p) == SubSeq(p, 1, CHOOSE k \in 0..Len(p) :
                       /\ \A i \in (k + 1)..Len(p) : p[i] = "/"
                       /\ (k = 0 \/ p[k] # "/"))

\* the characters after the last separator
FinalComponent(p) ==
  LET k == CHOOSE j \in 0..Len(p) :
             /\ \A i \in (j + 1)..Len(p) : p[i] # "/"
             /\ (j = 0 \/ p[j] = "/")
  IN SubSeq(p, k + 1, Len(p))

C8_AuditRoots ==
  Launched("audit") =>
    LET cmd == CmdOf("audit")
        source == sys_argv[2]
        dest == sys_argv[3]
        src_root == cmd[Len(cmd) - 1]
        dest_root == cmd[Len(cmd)]
        trailing == Len(source) > 0 /\ source[Len(source)] = "/"
    IN /\ OneTrailingSep(src_root)
       /\ NoTrailingSeps(src_root) = NoTrailingSeps(source)
       /\ OneTrailingSep(dest_root)
       /\ ~trailing =>
            NoTrailingSeps(dest_root) = NoTrailingSeps(path_join(dest, FinalComponent(source)))
       /\ (~trailing /\ source # <<>>) =>
            dest_root = path_join(dest, FinalComponent(source)) \o Str("/")
       /\ trailing => NoTrailingSeps(dest_root) = NoTrailingSeps(dest)

\* source "a/b" into destination "b//": the root is "b//b/"
C8_Witness ==
  /\ Launched("audit")
  /\ sys_argv[2] = <<"a", "/", "b">>
  /\ sys_argv[3] = <<"b", "/", "/">>
  /\ CmdOf("audit")[Len(CmdOf("audit"))] = <<"b", "/", "/", "b", "/">>

(***************************************************************************)
(* C3.  The extras list is the file paths of the entries the audit output  *)
(* marks "*deleting", in output order; the missing list is the file paths  *)
(* of the entries whose code is ">f+++++++++", in output order; no other   *)
(* line adds to either list, and none to both.  One deletion of old.txt    *)
(* and one creation of new.txt give extras = [old.txt], missing =          *)
(* [new.txt].                                                              *)
(***************************************************************************)
NamesWithCode(code) ==
  LET Has(e) == e.code = code
      sel == SelectSeq(auditItems, Has)
  IN [i \in 1..Len(sel) |-> sel[i].name]

Report == SubSeq(term, IdxOf("audit_start") + 1, Len(term))

Min(a, b) == IF a < b THEN a ELSE b

\* the section of the report under the heading "head" lists "list" as claimed
ListedAsClaimed(rep, head, list) ==
  LET n == Len(list)
      heads == {i \in 1..Len(rep) : rep[i].t = head}
  IN IF n = 0 THEN heads = {}
     ELSE /\ Cardinality(heads) = 1
          /\ LET h == CHOOSE i \in heads : TRUE
                 shown == Min(n, 15)
             IN /\ rep[h].n = n
                /\ Len(rep) >= h + shown
                /\ \A i \in 1..shown : rep[h + i] = Ev("item", 0, list[i], <<>>)
                /\ IF n > 15
                   THEN /\ Len(rep) > h + shown
                        /\ rep[h + shown + 1] = Ev("more", n - 15, <<>>, <<>>)
                   ELSE Len(rep) = h + shown \/ rep[h + shown + 1].t \notin {"item", "more"}

C10_ReportTruncation ==
  (pc = "exited" /\ Printed("audit_start")) =>
    LET missing == NamesWithCode(CREATED)
        extras == NamesWithCode(DELETING)
        rep == Report
        count(kind) == Cardinality({i \in 1..Len(rep) : rep[i].t = kind})
    IN /\ ListedAsClaimed(rep, "missing_head", missing)
       /\ ListedAsClaimed(rep, "extra_head", extras)
       /\ count("item") = Min(Len(missing), 15) + Min(Len(extras), 15)
       /\ count("more") = (IF Len(missing) > 15 THEN 1 ELSE 0)
                          + (IF Len(extras) > 15 THEN 1 ELSE 0)
       /\ (Len(missing) = 0 /\ Len(extras) = 0) <=> rep = <<Ev("perfect_match", 0, <<>>, <<>>)>>

\* twenty missing files: fifteen are listed, and "... and 5 more."
C10_Witness ==
  /\ pc = "exited"
  /\ Len(audit_result.missing) = 20
  /\ Len(audit_result.extras) = 15
  /\ \E i \in 1..Len(term) : term[i] = Ev("more", 5, <<>>, <<>>)

====
